---- MODULE Spec2Model ----
(***************************************************************************)
(* Model of the validation and loading core of the solar dashboard:        *)
(*   app/utils.py  validate_dataframe, load_cleaned_data                   *)
(* A DataFrame is a row count and a mapping column name -> cells.  A cell  *)
(* is a number, NaN (a null / empty CSV field) or a text value.            *)
(***************************************************************************)
EXTENDS Integers, Sequences, FiniteSets, TLC

VARIABLES
    df,          \* validate_dataframe called on its own: the argument df
    vret,        \* ... and what the call did ("none" before the call)
    dir_exists,  \* file system: data_dir.exists()
    files,       \* file system: file name -> content of the CSV file
    pc,          \* load_cleaned_data: position in the function
    idx,         \* load_cleaned_data: index of the file / country being handled
    data,        \* load_cleaned_data: country -> DataFrame read so far
    attrs,       \* df.attrs['quality_metrics'] of each DataFrame of data
    log,         \* records handed to logger, in order
    exc,         \* the exception load_cleaned_data raised (type "none" if none)
    result,      \* the mapping load_cleaned_data returned (<<>> if none)
    events,      \* calls made so far: read_csv, validate_dataframe and the
                 \* attaching of quality_metrics, each with its country
    ld_file,     \* DataLoader: the file at self.file_path
    ld_data,     \* DataLoader: self.data (loaded FALSE while it is None)
    ld_reads,    \* DataLoader: the pd.read_csv calls made so far
    ld_calls,    \* DataLoader: the method calls made so far
    raw,         \* clean_data: file name -> content of the raw CSV file
    cpc,         \* clean_data: position in main
    cidx,        \* clean_data: index of the entry of files being processed
    dir_files    \* clean_data: the data directory, file name -> table

loaderVars == <<ld_file, ld_data, ld_reads, ld_calls>>
cleanVars == <<raw, cpc, cidx, dir_files>>
vars == <<df, vret, dir_exists, files, pc, idx, data, attrs, log, exc, result, events,
          loaderVars, cleanVars>>

----------------------------------------------------------------------------
(* Bounds of the input space *)

\* Largest number of rows of a generated table.  The 3-sigma rule can only
\* flag a value among at least 11 values, and on eleven zeros followed by
\* 1 and 2 (13 rows) the sample and the population deviation disagree
\* about the last value.
MaxRows == 13

----------------------------------------------------------------------------
(* Cells and columns *)

NaN == [k |-> "nan", v |-> 0]
Txt == [k |-> "str", v |-> 0]
Num(x) == [k |-> "num", v |-> x]

IsNull(cell) == cell.k = "nan"
IsText(cell) == cell.k = "str"
IsNum(cell) == cell.k = "num"

\* The values a generated cell takes.
Cells == {NaN, Txt, Num(-1), Num(0), Num(1)}

\* A generated column of n rows: zeros, then the cells a and b in the last
\* two rows (a column of one row holds b alone).
ColumnOf(n, a, b) ==
    [i \in 1..n |-> IF i = n THEN b ELSE IF i = n - 1 THEN a ELSE Num(0)]

RECURSIVE SumSeq(_)
SumSeq(s) == IF s = <<>> THEN 0 ELSE Head(s) + SumSeq(Tail(s))

----------------------------------------------------------------------------
(* pandas column operations used by app/utils.py *)

\* Mutant of isnull_sum: .any() written for .sum().
isnull_any(col) == IF \E i \in 1..Len(col) : IsNull(col[i]) THEN 1 ELSE 0

\* df[col].isnull().sum(): the number of NaN cells of the column.
isnull_sum(col) == Cardinality({i \in 1..Len(col) : IsNull(col[i])})

\* A column holding a text cell has dtype object; comparing or subtracting
\* its cells with a number raises TypeError.
HasText(col) == \E i \in 1..Len(col) : IsText(col[i])

\* Mutant of any_negative: the comparison written <= 0.
any_negative_or_zero(col) == \E i \in 1..Len(col) : IsNum(col[i]) /\ col[i].v <= 0

\* (df[col] < 0).any(): NaN < 0 is False.
any_negative(col) == \E i \in 1..Len(col) : IsNum(col[i]) /\ col[i].v < 0

\* The non-null values of a numeric column (mean and std skip NaN).
Values(col) ==
    LET nn == SelectSeq(col, IsNum)
    IN  [i \in 1..Len(nn) |-> nn[i].v]

\* Series.std() divides by n - ddof with ddof = 1 (the sample deviation).
std_ddof == 1

\* The statistics of a column, kept in the integers: n the number of
\* non-null values, sum their sum (df[col].mean() is sum / n), and sqdev
\* n^2 times the sum of the squared deviations from the mean, the
\* numerator of the variance that Series.std() computes in two passes
\* (df[col].std()^2 is sqdev / (n^2 * (n - ddof))).
Stats(col) ==
    LET vs == Values(col)
        n == Len(vs)
        sum == SumSeq(vs)
    IN  [n |-> n, sum |-> sum,
         sqdev |-> SumSeq([i \in 1..n |-> (n * vs[i] - sum) * (n * vs[i] - sum)])]

\* Mutant of outlier_mask: the population deviation (ddof = 0) for the
\* sample deviation.
outlier_mask_population(cell, st) ==
    /\ IsNum(cell)
    /\ st.n > 0
    /\ st.n * (st.n * cell.v - st.sum) * (st.n * cell.v - st.sum) > 3 * 3 * st.sqdev

\* Mutant of outlier_mask: two deviations for three.
outlier_mask_two_sigma(cell, st) ==
    /\ IsNum(cell)
    /\ st.n > std_ddof
    /\ (st.n - std_ddof) * (st.n * cell.v - st.sum) * (st.n * cell.v - st.sum)
          > 2 * 2 * st.sqdev

\* One row of the mask abs(df[col] - df[col].mean()) > 3 * df[col].std().
\* std is NaN unless n > ddof, and a comparison with NaN is False, as is
\* the comparison of a NaN cell.  Squared and multiplied by n^2 * (n - ddof)
\* the comparison is (n - ddof) * (n*v - sum)^2 > 3^2 * sqdev.  On the
\* generated columns the two sides differ unless both are 0
\* (ComparisonNeverTies), so rounding does not decide the comparison.
outlier_mask(cell, st) ==
    /\ IsNum(cell)
    /\ st.n > std_ddof
    /\ (st.n - std_ddof) * (st.n * cell.v - st.sum) * (st.n * cell.v - st.sum)
          > 3 * 3 * st.sqdev

\* len(df[abs(df[col] - df[col].mean()) > 3 * df[col].std()])
outlier_count(col) ==
    LET st == Stats(col)
    IN  Cardinality({i \in 1..Len(col) : outlier_mask(col[i], st)})

----------------------------------------------------------------------------
(* validate_dataframe *)

required_columns == <<"GHI", "DNI", "DHI">>
Required == {required_columns[i] : i \in 1..Len(required_columns)}

\* A record handed to the logger.
LogRecord(level, kind, country, col, count, cols, counts) ==
    [level |-> level, kind |-> kind, country |-> country, col |-> col,
     count |-> count, cols |-> cols, counts |-> counts]
NoCounts == [c \in Required |-> 0]

\* [col for col in required_columns if col not in df.columns]
missing_columns(d) == SelectSeq(required_columns, LAMBDA c : c \notin DOMAIN d.cols)

\* The loop over required_columns that warns of negative values, from the
\* i-th column on.  It stops with TypeError at the first text column.
RECURSIVE negative_check(_, _, _)
negative_check(d, country, i) ==
    IF i > Len(required_columns) THEN [raised |-> FALSE, log |-> <<>>]
    ELSE LET col == required_columns[i]
         IN  IF HasText(d.cols[col]) THEN [raised |-> TRUE, log |-> <<>>]
             ELSE LET rest == negative_check(d, country, i + 1)
                      here == IF any_negative(d.cols[col])
                              THEN <<LogRecord("WARNING", "negative", country, col, 0, <<>>, NoCounts)>>
                              ELSE <<>>
                  IN  [raised |-> rest.raised, log |-> here \o rest.log]

\* missing_values = df[required_columns].isnull().sum(), and the warning
\* emitted when missing_values.any().
missing_values(d) == [c \in Required |-> isnull_sum(d.cols[c])]
missing_check(d, country) ==
    IF \E c \in Required : missing_values(d)[c] # 0
    THEN <<LogRecord("WARNING", "missing", country, "", 0, <<>>, missing_values(d))>>
    ELSE <<>>

\* The loop over required_columns that warns of outliers, from the i-th on.
RECURSIVE outlier_check(_, _, _)
outlier_check(d, country, i) ==
    IF i > Len(required_columns) THEN <<>>
    ELSE LET col == required_columns[i]
             n == outlier_count(d.cols[col])
             here == IF n # 0
                     THEN <<LogRecord("WARNING", "outliers", country, col, n, <<>>, NoCounts)>>
                     ELSE <<>>
         IN  here \o outlier_check(d, country, i + 1)

\* Mutant of validate_dataframe: negative or missing values fail the
\* validation, as app/test_utils.py expects of it.
validate_dataframe_strict(d, country) ==
    IF missing_columns(d) # <<>>
    THEN [outcome |-> "return", value |-> FALSE, exception |-> "none",
          log |-> <<LogRecord("ERROR", "missing_columns", country, "", 0,
                              missing_columns(d), NoCounts)>>]
    ELSE LET neg == negative_check(d, country, 1)
         IN  IF neg.raised
             THEN [outcome |-> "raise", value |-> FALSE, exception |-> "TypeError",
                   log |-> neg.log]
             ELSE [outcome |-> "return",
                   value |-> neg.log = <<>> /\ missing_check(d, country) = <<>>,
                   exception |-> "none",
                   log |-> neg.log \o missing_check(d, country)
                              \o outlier_check(d, country, 1)]

\* Mutant of validate_dataframe: after the error about absent columns it
\* goes on to the missing-value check of the required columns present.
validate_dataframe_all_checks(d, country) ==
    IF missing_columns(d) # <<>>
    THEN [outcome |-> "return", value |-> FALSE, exception |-> "none",
          log |-> <<LogRecord("ERROR", "missing_columns", country, "", 0,
                              missing_columns(d), NoCounts)>>
                  \o (IF \E c \in Required \cap DOMAIN d.cols : isnull_sum(d.cols[c]) # 0
                      THEN <<LogRecord("WARNING", "missing", country, "", 0, <<>>, NoCounts)>>
                      ELSE <<>>)]
    ELSE LET neg == negative_check(d, country, 1)
         IN  IF neg.raised
             THEN [outcome |-> "raise", value |-> FALSE, exception |-> "TypeError",
                   log |-> neg.log]
             ELSE [outcome |-> "return", value |-> TRUE, exception |-> "none",
                   log |-> neg.log \o missing_check(d, country)
                              \o outlier_check(d, country, 1)]

\* validate_dataframe(df, country): how the call ends ("return" with value,
\* or "raise" with the exception type) and the records it logged.
validate_dataframe(d, country) ==
    IF missing_columns(d) # <<>>
    THEN [outcome |-> "return", value |-> FALSE, exception |-> "none",
          log |-> <<LogRecord("ERROR", "missing_columns", country, "", 0,
                              missing_columns(d), NoCounts)>>]
    ELSE LET neg == negative_check(d, country, 1)
         IN  IF neg.raised
             THEN [outcome |-> "raise", value |-> FALSE, exception |-> "TypeError",
                   log |-> neg.log]
             ELSE [outcome |-> "return", value |-> TRUE, exception |-> "none",
                   log |-> neg.log \o missing_check(d, country)
                              \o outlier_check(d, country, 1)]

----------------------------------------------------------------------------
(* The tables the checks are run on *)

ExtraColumn == "Tamb"
AllColumns == Required \cup {ExtraColumn}

\* The last two cells of a generated column.
Shapes == ({NaN, Num(0)} \X Cells) \cup {<<Num(1), Num(2)>>}
ExtraShapes == {<<Num(0), Num(0)>>, <<Num(0), NaN>>, <<Num(0), Txt>>}

\* The table of n rows with the columns P: g gives the last two cells of
\* each required column, x those of the extra column.
Frame(n, P, g, x) ==
    [nrows |-> n,
     cols |-> [c \in P |-> IF c = ExtraColumn THEN ColumnOf(n, x[1], x[2])
                           ELSE ColumnOf(n, g[c][1], g[c][2])]]

Zeros == <<Num(0), Num(0)>>
ExtraShapesOf(P) == IF ExtraColumn \in P THEN ExtraShapes ELSE {Zeros}

NoFrame == [nrows |-> 0, cols |-> <<>>]
NoReturn == [outcome |-> "none", value |-> FALSE, exception |-> "none", log |-> <<>>]
NoException == [type |-> "none", kind |-> "none", about |-> ""]
NoData == [loaded |-> FALSE, frame |-> NoFrame]

\* DataLoader is not used.
LoaderIdle ==
    /\ ld_file = [exists |-> FALSE, frame |-> NoFrame]
    /\ ld_data = NoData
    /\ ld_reads = 0
    /\ ld_calls = <<>>

\* scripts/clean_data.py is not run.
CleanIdle ==
    /\ raw = <<>>
    /\ cpc = "idle"
    /\ cidx = 0
    /\ dir_files = <<>>

----------------------------------------------------------------------------
(* validate_dataframe called on its own, as app/test_utils.py calls it *)

TestCountry == "Test Country"

LoadIdle ==
    /\ dir_exists = FALSE
    /\ files = <<>>
    /\ pc = "idle"
    /\ idx = 0
    /\ data = <<>>
    /\ attrs = <<>>
    /\ log = <<>>
    /\ exc = NoException
    /\ result = <<>>
    /\ events = <<>>

\* df is any table over any subset of AllColumns.
InitValidate ==
    /\ \E n \in 0..MaxRows, P \in SUBSET AllColumns :
          \E g \in [P \ {ExtraColumn} -> Shapes], x \in ExtraShapesOf(P) :
             df = Frame(n, P, g, x)
    /\ vret = NoReturn
    /\ LoadIdle
    /\ LoaderIdle
    /\ CleanIdle

CallValidate ==
    /\ vret.outcome = "none"
    /\ vret' = validate_dataframe(df, TestCountry)
    /\ UNCHANGED <<df, dir_exists, files, pc, idx, data, attrs, log, exc, result, events>>
    /\ UNCHANGED <<loaderVars, cleanVars>>

NextValidate == CallValidate

SpecValidate == InitValidate /\ [][NextValidate]_vars

----------------------------------------------------------------------------
(* load_cleaned_data *)

Countries == <<"Benin", "Togo", "Sierra Leone">>
CountrySet == {Countries[i] : i \in 1..Len(Countries)}

\* The file read for each key of the dict literal.
file_name(country) ==
    CASE country = "Benin" -> "benin_clean.csv"
      [] country = "Togo" -> "togo_clean.csv"
      [] country = "Sierra Leone" -> "sierraleone_clean.csv"
FileNames == {file_name(c) : c \in CountrySet}

Absent == [exists |-> FALSE, frame |-> NoFrame]
File(fr) == [exists |-> TRUE, frame |-> fr]

\* Mutant of quality_metrics: the outliers are counted with the
\* population deviation, validate_dataframe keeping the sample deviation.
quality_metrics_population(d) ==
    [missing_values |-> [c \in DOMAIN d.cols |-> isnull_sum(d.cols[c])],
     outliers |-> [c \in {"GHI", "DNI", "DHI"} |->
                     LET st == Stats(d.cols[c])
                     IN  Cardinality({i \in 1..Len(d.cols[c]) :
                                        outlier_mask_population(d.cols[c][i], st)})]]

\* df.attrs['quality_metrics']
quality_metrics(d) ==
    [missing_values |-> [c \in DOMAIN d.cols |-> isnull_sum(d.cols[c])],
     outliers |-> [c \in {"GHI", "DNI", "DHI"} |-> outlier_count(d.cols[c])]]

Info(kind, country) == LogRecord("INFO", kind, country, "", 0, <<>>, NoCounts)
Error(kind) == LogRecord("ERROR", kind, "", "", 0, <<>>, NoCounts)

\* raise inside the try block: the matching except clause logs and re-raises.
Raise(e, records) ==
    /\ log' = log \o records
                  \o <<Error(IF e.type = "FileNotFoundError"
                             THEN "Data file not found" ELSE "Error loading data")>>
    /\ exc' = e
    /\ pc' = "raised"

\* Mutant of CheckDirectory: the test of data_dir.exists() left out.
CheckDirectory_unchecked ==
    /\ pc = "start"
    /\ log' = log \o <<Info("Loading data", "")>>
    /\ pc' = "read"
    /\ idx' = 1
    /\ UNCHANGED <<df, vret, dir_exists, files, data, attrs, result, events, exc>>
    /\ UNCHANGED <<loaderVars, cleanVars>>

\* logger.info(...); if not data_dir.exists(): raise FileNotFoundError(...)
CheckDirectory ==
    /\ pc = "start"
    /\ IF ~dir_exists
       THEN /\ Raise([type |-> "FileNotFoundError", kind |-> "directory", about |-> ""],
                     <<Info("Loading data", "")>>)
            /\ UNCHANGED idx
       ELSE /\ log' = log \o <<Info("Loading data", "")>>
            /\ pc' = "read"
            /\ idx' = 1
            /\ UNCHANGED exc
    /\ UNCHANGED <<df, vret, dir_exists, files, data, attrs, result, events>>
    /\ UNCHANGED <<loaderVars, cleanVars>>

\* Mutant of read_csv: a missing file read as a table without rows.
read_csv_lenient(f) ==
    [raised |-> FALSE, type |-> "none", kind |-> "none",
     frame |-> IF f.exists THEN f.frame ELSE NoFrame]

\* pd.read_csv(path): a missing file raises FileNotFoundError, a file
\* without any column pandas.errors.EmptyDataError.
read_csv(f) ==
    IF ~f.exists THEN [raised |-> TRUE, type |-> "FileNotFoundError", kind |-> "file",
                       frame |-> NoFrame]
    ELSE IF DOMAIN f.frame.cols = {}
    THEN [raised |-> TRUE, type |-> "EmptyDataError", kind |-> "parse", frame |-> NoFrame]
    ELSE [raised |-> FALSE, type |-> "none", kind |-> "none", frame |-> f.frame]

\* One entry of the dict literal; data holds the entries evaluated so far.
ReadCsv ==
    /\ pc = "read"
    /\ LET country == Countries[idx]
           r == read_csv(files[file_name(country)])
       IN  /\ events' = Append(events, <<"read_csv", country>>)
           /\ IF r.raised
              THEN /\ Raise([type |-> r.type, kind |-> r.kind,
                             about |-> file_name(country)], <<>>)
                   /\ UNCHANGED <<idx, data>>
              ELSE /\ data' = data @@ (country :> r.frame)
                   /\ IF idx = Len(Countries)
                      THEN pc' = "validate" /\ idx' = 1
                      ELSE pc' = "read" /\ idx' = idx + 1
                   /\ UNCHANGED <<log, exc>>
    /\ UNCHANGED <<df, vret, dir_exists, files, attrs, result>>
    /\ UNCHANGED <<loaderVars, cleanVars>>

\* Mutant of ValidationError: the message names the first country.
ValidationError_first(country) ==
    [type |-> "ValueError", kind |-> "validation", about |-> "Benin"]

\* ValueError(f"Data validation failed for {country}")
ValidationError(country) ==
    [type |-> "ValueError", kind |-> "validation", about |-> country]

\* for country, df in data.items(): logger.info(...);
\* if not validate_dataframe(df, country): raise ValueError(...)
Validate ==
    /\ pc = "validate"
    /\ LET country == Countries[idx]
           r == validate_dataframe(data[country], country)
           records == <<Info("Validating", country)>> \o r.log
       IN  /\ events' = Append(events, <<"validate_dataframe", country>>)
           /\ IF r.outcome = "raise"
              THEN Raise([type |-> r.exception, kind |-> "other", about |-> country],
                         records)
              ELSE IF ~r.value
              THEN Raise(ValidationError(country), records)
              ELSE /\ log' = log \o records
                   /\ pc' = "metrics"
                   /\ UNCHANGED exc
    /\ UNCHANGED <<df, vret, dir_exists, files, idx, data, attrs, result>>
    /\ UNCHANGED <<loaderVars, cleanVars>>

\* Mutant of AttachMetrics: the first dataset gets no metrics.
AttachMetrics_not_first ==
    /\ pc = "metrics"
    /\ LET country == Countries[idx]
       IN  /\ attrs' = IF idx = 1 THEN attrs
                       ELSE attrs @@ (country :> quality_metrics(data[country]))
           /\ events' = Append(events, <<"quality_metrics", country>>)
    /\ IF idx = Len(Countries)
       THEN pc' = "finish" /\ UNCHANGED idx
       ELSE pc' = "validate" /\ idx' = idx + 1
    /\ UNCHANGED <<df, vret, dir_exists, files, data, log, exc, result>>
    /\ UNCHANGED <<loaderVars, cleanVars>>

\* df.attrs['quality_metrics'] = {...}, the end of one iteration of the loop
AttachMetrics ==
    /\ pc = "metrics"
    /\ LET country == Countries[idx]
       IN  /\ attrs' = attrs @@ (country :> quality_metrics(data[country]))
           /\ events' = Append(events, <<"quality_metrics", country>>)
    /\ IF idx = Len(Countries)
       THEN pc' = "finish" /\ UNCHANGED idx
       ELSE pc' = "validate" /\ idx' = idx + 1
    /\ UNCHANGED <<df, vret, dir_exists, files, data, log, exc, result>>
    /\ UNCHANGED <<loaderVars, cleanVars>>

\* logger.info("All data loaded and validated successfully"); return data
Return ==
    /\ pc = "finish"
    /\ log' = Append(log, Info("All data loaded", ""))
    /\ result' = data
    /\ pc' = "returned"
    /\ UNCHANGED <<df, vret, dir_exists, files, idx, data, attrs, exc, events>>
    /\ UNCHANGED <<loaderVars, cleanVars>>

----------------------------------------------------------------------------
(* The file systems load_cleaned_data is run on *)

\* Tables with all required columns in which at most one required column
\* holds something else than zeros.
LoadFrames ==
    UNION { { Frame(n, P, [c \in Required |-> IF c = odd THEN s ELSE Zeros], x)
              : odd \in Required, s \in Shapes, x \in ExtraShapesOf(P) }
            : n \in 0..MaxRows, P \in {Required, AllColumns} }

\* A file that is missing, one without any column, one without GHI, and
\* a table of two rows of zeros.
PlainFiles ==
    {Absent, File(NoFrame)}
      \cup {File(Frame(2, P, [c \in P |-> Zeros], Zeros))
              : P \in {Required, Required \ {"GHI"}}}

\* In an existing directory one file holds any table of LoadFrames or is
\* plain, and the other two are plain; a directory that does not exist
\* holds no file.
Init ==
    /\ \/ /\ dir_exists = TRUE
          /\ \E rich \in FileNames, plain \in [FileNames -> PlainFiles] :
                \E r \in PlainFiles \cup {File(fr) : fr \in LoadFrames} :
                   files = [f \in FileNames |-> IF f = rich THEN r ELSE plain[f]]
       \/ /\ dir_exists = FALSE
          /\ files = [f \in FileNames |-> Absent]
    /\ pc = "start"
    /\ idx = 0
    /\ data = <<>>
    /\ attrs = <<>>
    /\ log = <<>>
    /\ exc = NoException
    /\ result = <<>>
    /\ events = <<>>
    /\ df = NoFrame
    /\ vret = NoReturn
    /\ LoaderIdle
    /\ CleanIdle

\* Columns of any values: the length of the longest one.
MaxColumnLen == 11

Run(cell, k) == [i \in 1..k |-> cell]

\* The column holding k10 times 10, then big times 1000, then knan nulls,
\* kneg times -1, k0 times 0 and k1 times 1.  (The outlier count of a
\* column does not depend on the order of its rows.)
ColumnWith(k10, big, knan, kneg, k0, k1) ==
    Run(Num(10), k10) \o Run(Num(1000), big) \o Run(NaN, knan)
       \o Run(Num(-1), kneg) \o Run(Num(0), k0) \o Run(Num(1), k1)

\* benin_clean.csv holds a table of at most MaxColumnLen rows in which one
\* required column is any ColumnWith, 1000 occurring at most once, and the
\* other two hold zeros; the other two files hold two rows of zeros.
InitColumns ==
    /\ dir_exists = TRUE
    /\ \E odd \in Required, big \in 0..1 :
         \E k10 \in 0..(MaxColumnLen - big) :
          \E knan \in 0..(MaxColumnLen - big - k10) :
           \E kneg \in 0..(MaxColumnLen - big - k10 - knan) :
            \E k0 \in 0..(MaxColumnLen - big - k10 - knan - kneg) :
             \E k1 \in 0..(MaxColumnLen - big - k10 - knan - kneg - k0) :
               LET col == ColumnWith(k10, big, knan, kneg, k0, k1)
                   fr == [nrows |-> Len(col),
                          cols |-> [c \in Required |->
                                      IF c = odd THEN col ELSE Run(Num(0), Len(col))]]
               IN  files = [f \in FileNames |->
                              IF f = file_name("Benin") THEN File(fr)
                              ELSE File(Frame(2, Required, [c \in Required |-> Zeros], Zeros))]
    /\ pc = "start"
    /\ idx = 0
    /\ data = <<>>
    /\ attrs = <<>>
    /\ log = <<>>
    /\ exc = NoException
    /\ result = <<>>
    /\ events = <<>>
    /\ df = NoFrame
    /\ vret = NoReturn
    /\ LoaderIdle
    /\ CleanIdle

Next ==
    \/ CheckDirectory
    \/ ReadCsv
    \/ Validate
    \/ AttachMetrics
    \/ Return

Spec == Init /\ [][Next]_vars
SpecColumns == InitColumns /\ [][Next]_vars

----------------------------------------------------------------------------
(* DataLoader (src/data_loader.py) *)

\* The calls made on one DataLoader.
MaxCalls == 4

\* What a method call did: the exception type it raised if any, self.data
\* after it, the pd.read_csv calls it made, and the shape it returned
\* (get_basic_info; the other parts of the returned values are not kept).
Outcome(raised, type, dat, reads, shape) ==
    [raised |-> raised, type |-> type, data |-> dat, reads |-> reads, shape |-> shape]

\* self.data = pd.read_csv(self.file_path); return self.data
load_data(file, dat) ==
    LET r == read_csv(file)
    IN  IF r.raised THEN Outcome(TRUE, r.type, dat, 1, <<>>)
        ELSE Outcome(FALSE, "none", [loaded |-> TRUE, frame |-> r.frame], 1, <<>>)

\* if self.data is None: self.load_data()
ensure_loaded(file, dat) ==
    IF ~dat.loaded THEN load_data(file, dat) ELSE Outcome(FALSE, "none", dat, 0, <<>>)

\* Mutant of get_basic_info: it loads the file whether or not data is set.
get_basic_info_reloading(file, dat) ==
    LET l == load_data(file, dat)
    IN  IF l.raised THEN l
        ELSE Outcome(FALSE, "none", l.data, l.reads,
                     <<l.data.frame.nrows, Cardinality(DOMAIN l.data.frame.cols)>>)

\* get_basic_info: loads when data is None, then returns shape and info.
get_basic_info(file, dat) ==
    LET l == ensure_loaded(file, dat)
    IN  IF l.raised THEN l
        ELSE Outcome(FALSE, "none", l.data, l.reads,
                     <<l.data.frame.nrows, Cardinality(DOMAIN l.data.frame.cols)>>)

\* get_summary_statistics: loads when data is None, then returns describe().
get_summary_statistics(file, dat) == ensure_loaded(file, dat)

\* A method call on the loader; ld_calls records the method, whether data
\* was set when it was called, and what it did.
Call(op, o) ==
    /\ Len(ld_calls) < MaxCalls
    /\ ld_data' = o.data
    /\ ld_reads' = ld_reads + o.reads
    /\ ld_calls' = Append(ld_calls, [op |-> op, loaded_before |-> ld_data.loaded,
                                     raised |-> o.raised, type |-> o.type,
                                     reads |-> o.reads, shape |-> o.shape])
    /\ UNCHANGED <<ld_file, cleanVars>>
    /\ UNCHANGED <<df, vret, dir_exists, files, pc, idx, data, attrs, log, exc, result, events>>

CallLoadData == Call("load_data", load_data(ld_file, ld_data))
CallGetBasicInfo == Call("get_basic_info", get_basic_info(ld_file, ld_data))
CallGetSummaryStatistics ==
    Call("get_summary_statistics", get_summary_statistics(ld_file, ld_data))

\* DataLoader(file_path): data is None; the file is missing, empty or a table.
InitLoader ==
    /\ ld_file \in PlainFiles \cup {File(Frame(n, AllColumns, [c \in Required |-> <<NaN, Num(1)>>],
                                              <<Num(0), Txt>>)) : n \in 0..2}
    /\ ld_data = NoData
    /\ ld_reads = 0
    /\ ld_calls = <<>>
    /\ df = NoFrame
    /\ vret = NoReturn
    /\ LoadIdle
    /\ CleanIdle

NextLoader == CallLoadData \/ CallGetBasicInfo \/ CallGetSummaryStatistics
SpecLoader == InitLoader /\ [][NextLoader]_vars

----------------------------------------------------------------------------
(* scripts/clean_data.py, and load_cleaned_data run on what it wrote *)

\* Strings the script computes with are sequences of characters.
UpperCase == <<"A", "B", "C", "D", "E", "F", "G", "H", "I", "J", "K", "L", "M", "N", "O", "P", "Q", "R", "S", "T", "U", "V", "W", "X", "Y", "Z">>
LowerCase == <<"a", "b", "c", "d", "e", "f", "g", "h", "i", "j", "k", "l", "m", "n", "o", "p", "q", "r", "s", "t", "u", "v", "w", "x", "y", "z">>

\* str.lower()
lower(str) ==
    [i \in DOMAIN str |->
       IF \E k \in DOMAIN UpperCase : UpperCase[k] = str[i]
       THEN LowerCase[CHOOSE k \in DOMAIN UpperCase : UpperCase[k] = str[i]]
       ELSE str[i]]

\* str.replace(old, new) for a single character old
replace(str, old, new) == [i \in DOMAIN str |-> IF str[i] = old THEN new ELSE str[i]]

\* The string literals of the two programs, spelled out.
Spell(str) ==
    CASE str = "Benin" -> <<"B", "e", "n", "i", "n">>
      [] str = "Togo" -> <<"T", "o", "g", "o">>
      [] str = "Sierra Leone" -> <<"S", "i", "e", "r", "r", "a", " ", "L", "e", "o", "n", "e">>
      [] str = "_clean.csv" -> <<"_", "c", "l", "e", "a", "n", ".", "c", "s", "v">>
      [] str = "benin_clean.csv" -> <<"b", "e", "n", "i", "n", "_", "c", "l", "e", "a", "n", ".", "c", "s", "v">>
      [] str = "togo_clean.csv" -> <<"t", "o", "g", "o", "_", "c", "l", "e", "a", "n", ".", "c", "s", "v">>
      [] str = "sierraleone_clean.csv" -> <<"s", "i", "e", "r", "r", "a", "l", "e", "o", "n", "e", "_", "c", "l", "e", "a", "n", ".", "c", "s", "v">>

\* files = {'benin-malanville.csv': 'Benin', ...}, in insertion order
raw_files ==
    <<[file_name |-> "benin-malanville.csv", country |-> "Benin"],
      [file_name |-> "togo-dapaong_qc.csv", country |-> "Togo"],
      [file_name |-> "sierraleone-bumbuna.csv", country |-> "Sierra Leone"]>>
RawNames == {raw_files[i].file_name : i \in DOMAIN raw_files}

\* f"{country.lower().replace(' ', '_')}_clean.csv"
output_file(country) == replace(lower(Spell(country)), " ", "_") \o Spell("_clean.csv")

\* Series.clip(lower=0)
clip_lower(col) ==
    [i \in DOMAIN col |-> IF IsNum(col[i]) /\ col[i].v < 0 THEN Num(0) ELSE col[i]]

\* The rows of a column whose index is in keep, from the i-th on.
RECURSIVE KeepRows(_, _, _)
KeepRows(col, keep, i) ==
    IF i > Len(col) THEN <<>>
    ELSE (IF i \in keep THEN <<col[i]>> ELSE <<>>) \o KeepRows(col, keep, i + 1)

\* df.dropna(subset=irradiance_cols, how='all')
dropna_all(d) ==
    LET keep == {i \in 1..d.nrows : \E c \in Required : ~IsNull(d.cols[c][i])}
    IN  [nrows |-> Cardinality(keep),
         cols |-> [c \in DOMAIN d.cols |-> KeepRows(d.cols[c], keep, 1)]]

\* clean_solar_data(file_path, country): the table it returns, or the
\* exception it raises: that of pd.read_csv, KeyError without a Timestamp
\* column, TypeError when clip meets a text column.
clean_solar_data(f, country) ==
    LET r == read_csv(f)
    IN  IF r.raised THEN [raised |-> TRUE, type |-> r.type, frame |-> NoFrame]
        ELSE IF "Timestamp" \notin DOMAIN r.frame.cols
        THEN [raised |-> TRUE, type |-> "KeyError", frame |-> NoFrame]
        ELSE IF \E c \in Required \cap DOMAIN r.frame.cols : HasText(r.frame.cols[c])
        THEN [raised |-> TRUE, type |-> "TypeError", frame |-> NoFrame]
        ELSE LET clipped == [nrows |-> r.frame.nrows,
                             cols |-> [c \in DOMAIN r.frame.cols |->
                                         IF c \in Required THEN clip_lower(r.frame.cols[c])
                                         ELSE r.frame.cols[c]]]
                 kept == IF Required \subseteq DOMAIN clipped.cols
                         THEN dropna_all(clipped) ELSE clipped
             IN  [raised |-> FALSE, type |-> "none",
                  frame |-> [nrows |-> kept.nrows,
                             cols |-> [c \in DOMAIN kept.cols \cup {"Country"} |->
                                         IF c = "Country" THEN Run(Txt, kept.nrows)
                                         ELSE kept.cols[c]]]]

\* data_dir.mkdir(exist_ok=True)
MakeDataDir ==
    /\ cpc = "start"
    /\ dir_exists' = TRUE
    /\ cpc' = "loop"
    /\ cidx' = 1
    /\ UNCHANGED <<raw, dir_files, loaderVars>>
    /\ UNCHANGED <<df, vret, files, pc, idx, data, attrs, log, exc, result, events>>

\* One iteration of the loop of main: clean one raw file and write the
\* table with df.to_csv(output_file); an exception ends main.
ProcessFile ==
    /\ cpc = "loop"
    /\ LET entry == raw_files[cidx]
           r == clean_solar_data(raw[entry.file_name], entry.country)
       IN  IF r.raised
           THEN /\ cpc' = "failed"
                /\ UNCHANGED <<cidx, dir_files>>
           ELSE /\ dir_files' = [n \in DOMAIN dir_files \cup {output_file(entry.country)} |->
                                   IF n = output_file(entry.country) THEN r.frame
                                   ELSE dir_files[n]]
                /\ IF cidx = Len(raw_files)
                   THEN cpc' = "done" /\ UNCHANGED cidx
                   ELSE cpc' = "loop" /\ cidx' = cidx + 1
    /\ UNCHANGED <<raw, loaderVars>>
    /\ UNCHANGED <<df, vret, dir_exists, files, pc, idx, data, attrs, log, exc, result, events>>

\* load_cleaned_data is called on the directory main has written to: the
\* file of a name exists when the directory holds that name.
StartLoad ==
    /\ cpc = "done"
    /\ pc = "idle"
    /\ pc' = "start"
    /\ files' = [f \in FileNames |->
                   IF Spell(f) \in DOMAIN dir_files THEN File(dir_files[Spell(f)])
                   ELSE Absent]
    /\ UNCHANGED <<cleanVars, loaderVars>>
    /\ UNCHANGED <<df, vret, dir_exists, idx, data, attrs, log, exc, result, events>>

\* The raw files: missing, without Timestamp, with text in GHI, or a table
\* with a negative value and a row of nulls.
RawTable(P) ==
    [nrows |-> 3,
     cols |-> [c \in P |-> IF c = "Timestamp" THEN Run(Txt, 3)
                            ELSE IF c = "GHI" THEN <<Num(-1), NaN, Num(1)>>
                            ELSE <<Num(0), NaN, Num(1)>>]]
RawContents ==
    {Absent, File(RawTable(Required)), File(RawTable(AllColumns \cup {"Timestamp"})),
     File(RawTable(Required \cup {"Timestamp"})),
     File([RawTable(Required \cup {"Timestamp"}) EXCEPT !.cols["GHI"] = <<Num(0), Txt, Num(1)>>])}

\* The data directory is missing or holds some of the files the loader
\* expects, left by an earlier run.
InitClean ==
    /\ raw \in [RawNames -> RawContents]
    /\ \E old \in SUBSET FileNames :
          /\ dir_files = [n \in {Spell(f) : f \in old} |->
                            Frame(2, Required, [c \in Required |-> Zeros], Zeros)]
          /\ dir_exists \in (IF old = {} THEN {FALSE, TRUE} ELSE {TRUE})
    /\ cpc = "start"
    /\ cidx = 0
    /\ files = <<>>
    /\ pc = "idle"
    /\ idx = 0
    /\ data = <<>>
    /\ attrs = <<>>
    /\ log = <<>>
    /\ exc = NoException
    /\ result = <<>>
    /\ events = <<>>
    /\ df = NoFrame
    /\ vret = NoReturn
    /\ LoaderIdle

NextClean ==
    \/ MakeDataDir
    \/ ProcessFile
    \/ StartLoad
    \/ CheckDirectory
    \/ ReadCsv
    \/ Validate
    \/ AttachMetrics
    \/ Return

SpecClean == InitClean /\ [][NextClean]_vars

----------------------------------------------------------------------------
(* What the claims speak of, stated without the operators of the model *)

\* d has the three required columns.
HasAllRequired(d) == {"GHI", "DNI", "DHI"} \subseteq DOMAIN d.cols

\* The required columns of d are of the floating-point type of the data
\* model: numbers and nulls, no text.
NumericRequired(d) ==
    \A c \in {"GHI", "DNI", "DHI"} \cap DOMAIN d.cols :
       \A i \in DOMAIN d.cols[c] : d.cols[c][i].k # "str"

HasNegativeValue(col) == \E i \in DOMAIN col : col[i].k = "num" /\ col[i].v < 0
NullCells(col) == {i \in DOMAIN col : col[i].k = "nan"}

\* The sum of the p-th powers (p = 1 or 2) of the numbers in rows 1..k.
RECURSIVE PowerSum(_, _, _)
PowerSum(col, k, p) ==
    IF k = 0 THEN 0
    ELSE PowerSum(col, k - 1, p)
           + (IF col[k].k # "num" THEN 0
              ELSE IF p = 1 THEN col[k].v ELSE col[k].v * col[k].v)

\* The rows whose value v has abs(v - mean) > 3 * std, mean and std being the
\* arithmetic mean S / n and the sample standard deviation
\* sqrt((Q - S^2 / n) / (n - 1)) of the n non-null values, with sum S and
\* sum of squares Q.  In the integers:
\* (n - 1) * (n*v - S)^2 > 9 * n * (n*Q - S^2).
ThreeSigmaRows(col) ==
    LET n == Len(col) - Cardinality(NullCells(col))
        S == PowerSum(col, Len(col), 1)
        Q == PowerSum(col, Len(col), 2)
    IN  {i \in DOMAIN col :
           /\ col[i].k = "num"
           /\ n >= 2
           /\ (n - 1) * (n * col[i].v - S) * (n * col[i].v - S) > 9 * n * (n * Q - S * S)}

Called == vret.outcome # "none"
Logged(kind, col) == \E i \in DOMAIN vret.log : vret.log[i].kind = kind /\ vret.log[i].col = col

\* No value of a numeric column lies exactly on the 3-sigma boundary.
ComparisonNeverTies ==
    \A c \in DOMAIN df.cols : ~HasText(df.cols[c]) =>
       LET st == Stats(df.cols[c])
       IN  \A i \in 1..Len(df.cols[c]) :
              IsNum(df.cols[c][i]) /\ st.n > std_ddof =>
                 LET d == st.n * df.cols[c][i].v - st.sum
                 IN  (st.n - std_ddof) * d * d = 3 * 3 * st.sqdev => d = 0

----------------------------------------------------------------------------
(* Claims about validate_dataframe, under SpecValidate *)

C2_InvalidDataRejected ==
    /\ Called /\ HasAllRequired(df) /\ NumericRequired(df)
    /\ \E c \in Required : HasNegativeValue(df.cols[c]) \/ NullCells(df.cols[c]) # {}
    => vret.outcome = "return" /\ ~vret.value

\* C9: validate_dataframe warns exactly of the issues present: of negative
\* values in column c iff c holds a value below 0, of missing values iff a
\* required column holds a null, of outliers in c iff c holds a 3-sigma
\* outlier; so a table with no issue is accepted without any warning.
\* (Tables with the three required columns, of floating-point type.)
C9_WarningsExactlyForIssues ==
    Called /\ HasAllRequired(df) /\ NumericRequired(df)
      => /\ \A c \in Required : Logged("negative", c) <=> HasNegativeValue(df.cols[c])
         /\ Logged("missing", "") <=> \E c \in Required : NullCells(df.cols[c]) # {}
         /\ \A c \in Required : Logged("outliers", c) <=> ThreeSigmaRows(df.cols[c]) # {}
         /\ \A i \in DOMAIN vret.log :
               /\ vret.log[i].level = "WARNING"
               /\ vret.log[i].kind \in {"negative", "missing", "outliers"}
         /\ Len(vret.log) =
               Cardinality({c \in Required : HasNegativeValue(df.cols[c])})
                 + (IF \E c \in Required : NullCells(df.cols[c]) # {} THEN 1 ELSE 0)
                 + Cardinality({c \in Required : ThreeSigmaRows(df.cols[c]) # {}})
         /\ vret.outcome = "return" /\ vret.value

\* A table in which GHI alone holds a negative value, DNI alone a null and
\* DHI alone an outlier, and the three warnings it got.
C9_Witness ==
    /\ Called /\ HasAllRequired(df) /\ NumericRequired(df)
    /\ HasNegativeValue(df.cols["GHI"]) /\ ~HasNegativeValue(df.cols["DNI"])
    /\ NullCells(df.cols["DNI"]) # {} /\ NullCells(df.cols["GHI"]) = {}
    /\ ThreeSigmaRows(df.cols["DHI"]) # {} /\ ThreeSigmaRows(df.cols["DNI"]) = {}
    /\ Logged("negative", "GHI") /\ Logged("missing", "") /\ Logged("outliers", "DHI")

\* C10: validate_dataframe never raises: on every table, also one with text
\* cells or empty required columns, it ends by returning a boolean.
C10_NeverRaises == Called => vret.outcome = "return"

\* C12: on a table that lacks a required column, validate_dataframe
\* returns False at once: it logs exactly one record, the error that lists
\* the absent required columns, and no warning of negative values, missing
\* values or outliers, whatever the columns present hold.
C12_AbsentColumnStopsChecks ==
    Called /\ ~HasAllRequired(df)
      => /\ vret.outcome = "return" /\ ~vret.value
         /\ Len(vret.log) = 1
         /\ vret.log[1].level = "ERROR" /\ vret.log[1].kind = "missing_columns"
         /\ Len(vret.log[1].cols) = Cardinality({"GHI", "DNI", "DHI"} \ DOMAIN df.cols)
         /\ \A c \in {"GHI", "DNI", "DHI"} :
               (\E i \in DOMAIN vret.log[1].cols : vret.log[1].cols[i] = c)
                  <=> c \notin DOMAIN df.cols
         /\ \A i \in DOMAIN vret.log :
               vret.log[i].kind \notin {"negative", "missing", "outliers"}

\* A table without DHI whose GHI holds a negative value and whose DNI holds
\* a null and an outlier, and the single error it got.
C12_Witness ==
    /\ Called /\ DOMAIN df.cols \cap {"GHI", "DNI", "DHI"} = {"GHI", "DNI"}
    /\ HasNegativeValue(df.cols["GHI"])
    /\ NullCells(df.cols["DNI"]) # {}
    /\ ThreeSigmaRows(df.cols["DNI"]) # {}
    /\ vret.log = <<[level |-> "ERROR", kind |-> "missing_columns",
                     country |-> TestCountry, col |-> "", count |-> 0,
                     cols |-> <<"DHI">>, counts |-> [c \in {"GHI", "DNI", "DHI"} |-> 0]]>>

----------------------------------------------------------------------------
(* Claims about load_cleaned_data, under Spec *)

ExpectedCountries == <<"Benin", "Togo", "Sierra Leone">>
ExpectedFile(country) ==
    IF country = "Benin" THEN "benin_clean.csv"
    ELSE IF country = "Togo" THEN "togo_clean.csv" ELSE "sierraleone_clean.csv"

Done == pc \in {"raised", "returned"}
AllRead == DOMAIN data = {"Benin", "Togo", "Sierra Leone"}

\* The table in the file of a country, as it is on disk.
AsLoaded(country) == files[ExpectedFile(country)].frame

\* The first country, in the order Benin, Togo, Sierra Leone, with Bad.
FirstIndex(Bad(_)) ==
    CHOOSE i \in 1..3 : Bad(ExpectedCountries[i])
                          /\ \A j \in 1..(i - 1) : ~Bad(ExpectedCountries[j])

LacksColumn(country) == ~HasAllRequired(data[country])
Missing(country) == ~files[ExpectedFile(country)].exists
Unreadable(country) ==
    Missing(country) \/ DOMAIN files[ExpectedFile(country)].frame.cols = {}

ReadEvents(k) == [i \in 1..k |-> <<"read_csv", ExpectedCountries[i]>>]

\* C3: once the three files are read and a table lacks a required column,
\* the load does not return a mapping: it fails with the validation error
\* that names the first such country in the order Benin, Togo, Sierra Leone.
\* (The tables validated before that one being of the data model: required
\* columns of floating-point type.)
C3_ValidationErrorNamesCountry ==
    /\ AllRead
    /\ \E c \in DOMAIN data : LacksColumn(c)
    /\ \A j \in 1..(FirstIndex(LacksColumn) - 1) :
          NumericRequired(data[ExpectedCountries[j]])
    => /\ pc \in {"validate", "metrics", "raised"}
       /\ result = <<>>
       /\ pc = "raised" =>
            /\ exc.type = "ValueError"
            /\ exc.kind = "validation"
            /\ exc.about = ExpectedCountries[FirstIndex(LacksColumn)]

\* Benin passed, Togo and Sierra Leone both lack a column, and the load
\* failed naming Togo.
C3_Witness ==
    /\ pc = "raised" /\ AllRead
    /\ HasAllRequired(data["Benin"])
    /\ LacksColumn("Togo") /\ LacksColumn("Sierra Leone")
    /\ exc.type = "ValueError" /\ exc.about = "Togo"

\* C4: when the data directory does not exist the load fails with the
\* directory-not-found error before any file is read and before any
\* validation, and returns no mapping.
C4_DirectoryCheckedFirst ==
    ~dir_exists
      => /\ events = <<>>
         /\ data = <<>>
         /\ result = <<>>
         /\ pc \in {"start", "raised"}
         /\ pc = "raised" => exc.type = "FileNotFoundError" /\ exc.kind = "directory"

C4_Witness == ~dir_exists /\ pc = "raised" /\ exc.kind = "directory"

\* C5 as stated: when the directory exists and one of the three expected
\* files is missing, the load fails with a file-not-found error, returns no
\* mapping, validates nothing and reads no file after the missing one.
C5_MissingFileIsFileNotFound ==
    Done /\ dir_exists /\ (\E c \in CountrySet : Missing(c))
      => /\ pc = "raised"
         /\ exc.type = "FileNotFoundError" /\ exc.kind = "file"
         /\ result = <<>>
         /\ events = ReadEvents(FirstIndex(Missing))

\* C5 amended: when the directory exists and one of the three expected
\* files is missing, the load fails, returns no mapping, validates nothing
\* and reads no file after the first one that is missing or cannot be
\* parsed; the error is file-not-found when that first file is a missing
\* one, and the parse error of that file otherwise.
C5_FirstUnreadableFileAborts ==
    Done /\ dir_exists /\ (\E c \in CountrySet : Missing(c))
      => LET k == FirstIndex(Unreadable)
         IN  /\ pc = "raised"
             /\ result = <<>>
             /\ events = ReadEvents(k)
             /\ exc.about = ExpectedFile(ExpectedCountries[k])
             /\ exc.type = IF Missing(ExpectedCountries[k])
                           THEN "FileNotFoundError" ELSE "EmptyDataError"
             /\ Missing(ExpectedCountries[k]) => exc.kind = "file"

\* Benin's file was read, Togo's is missing, Sierra Leone's exists and was
\* not read.
C5_Witness ==
    /\ pc = "raised" /\ dir_exists
    /\ ~Missing("Benin") /\ Missing("Togo") /\ ~Missing("Sierra Leone")
    /\ DOMAIN data = {"Benin"}
    /\ events = ReadEvents(2)
    /\ exc.type = "FileNotFoundError" /\ exc.about = "togo_clean.csv"

\* C6: every successful load returns a mapping with exactly the keys Benin,
\* Togo and Sierra Leone, and the missing_values and the outliers of each
\* table's quality metrics have exactly the keys GHI, DNI and DHI, also
\* when the table has more columns.
C6_MetricsCoverRequiredColumns ==
    pc = "returned"
      => /\ DOMAIN result = {"Benin", "Togo", "Sierra Leone"}
         /\ \A c \in DOMAIN result :
               /\ c \in DOMAIN attrs
               /\ DOMAIN attrs[c].missing_values = {"GHI", "DNI", "DHI"}
               /\ DOMAIN attrs[c].outliers = {"GHI", "DNI", "DHI"}

\* C7: for every loaded table and required column c, missing_values[c] is
\* the number of null cells of column c in the file as it was read.
C7_MissingValuesAreNullCounts ==
    /\ pc = "returned" => DOMAIN attrs = {"Benin", "Togo", "Sierra Leone"}
    /\ \A c \in DOMAIN attrs : \A col \in {"GHI", "DNI", "DHI"} :
          attrs[c].missing_values[col] = Cardinality(NullCells(AsLoaded(c).cols[col]))

\* A load that returned a table with two nulls in GHI and none in DNI.
C7_Witness ==
    /\ pc = "returned"
    /\ \E c \in DOMAIN attrs :
          /\ Cardinality(NullCells(AsLoaded(c).cols["GHI"])) = 2
          /\ attrs[c].missing_values["GHI"] = 2
          /\ attrs[c].missing_values["DNI"] = 0

\* C8: for every loaded table and required column c, outliers[c] is the
\* number of rows whose value v has abs(v - mean) > 3 * std, for the mean
\* and the sample standard deviation of the non-null values of c; rows with
\* a null are not counted.
C8_OutliersAreThreeSigmaRows ==
    /\ pc = "returned" => DOMAIN attrs = {"Benin", "Togo", "Sierra Leone"}
    /\ \A c \in DOMAIN attrs : \A col \in {"GHI", "DNI", "DHI"} :
          attrs[c].outliers[col] = Cardinality(ThreeSigmaRows(AsLoaded(c).cols[col]))

\* A load that returned a table with an outlier in a column that also
\* holds a null.
C8_Witness ==
    /\ pc = "returned"
    /\ \E c \in DOMAIN attrs : \E col \in {"GHI", "DNI", "DHI"} :
          /\ attrs[c].outliers[col] = 1
          /\ NullCells(AsLoaded(c).cols[col]) # {}

\* Where the calls of a kind stand in the history of calls.
EventsOf(kind) == {i \in DOMAIN events : events[i][1] = kind}
ReadsBeforeValidations ==
    /\ \A i \in EventsOf("read_csv"), j \in EventsOf("validate_dataframe") : i < j
    /\ EventsOf("validate_dataframe") # {}
          => \A k \in 1..3 : events[k] = <<"read_csv", ExpectedCountries[k]>>
PositionOf(country) == CHOOSE k \in 1..3 : ExpectedCountries[k] = country

\* C13 as stated: the three files are read before any validate_dataframe
\* call, a dataset gets its quality_metrics only after all three datasets
\* have been validated, and when the load fails with a validation error no
\* dataset has had metrics attached.
C13_MetricsOnlyAfterAllValidated ==
    /\ ReadsBeforeValidations
    /\ \A i \in EventsOf("quality_metrics") :
          \A k \in 1..3 : \E j \in 1..(i - 1) :
             events[j] = <<"validate_dataframe", ExpectedCountries[k]>>
    /\ pc = "raised" /\ exc.kind = "validation" => attrs = <<>>

\* C13: the three files are read before any validate_dataframe call, and
\* a dataset gets its quality_metrics right after its own validation has
\* passed, before the next dataset is validated: the datasets with metrics
\* are those validated so far, less the one being validated.  So when the
\* load fails with the validation error of a country, the datasets before
\* it in the order Benin, Togo, Sierra Leone have metrics attached, it and
\* the later ones have none, and no mapping is returned; a returned
\* mapping has metrics on all three.
C13_MetricsAfterOwnValidation ==
    /\ ReadsBeforeValidations
    /\ \A i \in EventsOf("quality_metrics") :
          /\ i > 1 /\ events[i - 1] = <<"validate_dataframe", events[i][2]>>
          /\ \A j \in EventsOf("validate_dataframe") :
                j < i => PositionOf(events[j][2]) <= PositionOf(events[i][2])
    /\ DOMAIN attrs = {events[i][2] : i \in EventsOf("quality_metrics")}
    /\ pc = "raised" /\ exc.kind = "validation"
          => /\ DOMAIN attrs = {ExpectedCountries[k] : k \in 1..(PositionOf(exc.about) - 1)}
             /\ result = <<>>
    /\ pc = "returned" => DOMAIN attrs = {"Benin", "Togo", "Sierra Leone"}

\* Benin passed and got its metrics, then Togo failed validation.
C13_Witness ==
    /\ pc = "raised" /\ exc.kind = "validation" /\ exc.about = "Togo"
    /\ DOMAIN attrs = {"Benin"}
    /\ events = <<<<"read_csv", "Benin">>, <<"read_csv", "Togo">>,
                  <<"read_csv", "Sierra Leone">>, <<"validate_dataframe", "Benin">>,
                  <<"quality_metrics", "Benin">>, <<"validate_dataframe", "Togo">>>>

\* The outlier warnings validate_dataframe logged for a column of a country.
OutlierWarnings(country, col) ==
    {i \in DOMAIN log : /\ log[i].level = "WARNING" /\ log[i].kind = "outliers"
                        /\ log[i].country = country /\ log[i].col = col}

----------------------------------------------------------------------------
(* Claims about columns of any values, under SpecColumns *)

NonNull(col) == Cardinality({i \in DOMAIN col : col[i].k # "nan"})

\* C15: a required column with at most 10 non-null values has outlier
\* count 0 in the metrics and gets no outlier warning, whatever its values;
\* a value is flagged only in a column with at least 11 non-null values.
C15_NoOutlierBelowElevenValues ==
    \A col \in {"GHI", "DNI", "DHI"} :
       /\ \A c \in DOMAIN attrs :
             /\ NonNull(AsLoaded(c).cols[col]) <= 10 => attrs[c].outliers[col] = 0
             /\ attrs[c].outliers[col] > 0 => NonNull(AsLoaded(c).cols[col]) >= 11
       /\ \A c \in DOMAIN data :
             OutlierWarnings(c, col) # {} => NonNull(AsLoaded(c).cols[col]) >= 11

\* The load returned, GHI of Benin being 10, 10, 10, 10, 1000: no outlier
\* is counted and no outlier warning was logged.
C15_Witness ==
    /\ pc = "returned"
    /\ AsLoaded("Benin").cols["GHI"]
          = <<[k |-> "num", v |-> 10], [k |-> "num", v |-> 10], [k |-> "num", v |-> 10],
              [k |-> "num", v |-> 10], [k |-> "num", v |-> 1000]>>
    /\ attrs["Benin"].outliers["GHI"] = 0
    /\ OutlierWarnings("Benin", "GHI") = {}

\* Ten times 10 and 1000 once: the 1000 is counted and warned of.
C15_FlaggedAtEleven ==
    /\ pc = "returned"
    /\ NonNull(AsLoaded("Benin").cols["GHI"]) = 11
    /\ attrs["Benin"].outliers["GHI"] = 1
    /\ OutlierWarnings("Benin", "GHI") # {}

----------------------------------------------------------------------------
(* Claims about DataLoader, under SpecLoader *)

Getters == {"get_basic_info", "get_summary_statistics"}
CallsOf(ops) == {i \in DOMAIN ld_calls : ld_calls[i].op \in ops}
Completed == {i \in DOMAIN ld_calls : ~ld_calls[i].raised}

\* C11 as stated: data is set as soon as one call has completed, and the
\* file is read once per load_data call plus at most once more, by the
\* first get_* call and only if no load_data call came before it.
C11_GettersReadAtMostOnce ==
    /\ Completed # {} => ld_data.loaded
    /\ ld_reads - Cardinality(CallsOf({"load_data"})) \in {0, 1}
    /\ \A i \in CallsOf(Getters) :
          ld_calls[i].reads # 0
             => /\ \A j \in 1..(i - 1) : ld_calls[j].op # "load_data"
                /\ \A j \in 1..(i - 1) : ld_calls[j].op \notin Getters

\* C11: data is set as soon as one call has completed and stays set; the
\* file is read once by every load_data call and once by every get_* call
\* made while data is None, and by no get_* call made while data is set.
\* So at most one get_* call that completes has read the file, and none
\* after a call that completed.
C11_GettersReadOnlyWhileUnloaded ==
    /\ Completed # {} <=> ld_data.loaded
    /\ \A i \in CallsOf({"load_data"}) : ld_calls[i].reads = 1
    /\ \A i \in CallsOf(Getters) :
          /\ ld_calls[i].reads = (IF \E j \in Completed : j < i THEN 0 ELSE 1)
          /\ (\E j \in Completed : j < i) => ~ld_calls[i].raised
    /\ ld_reads = Cardinality(CallsOf({"load_data"}))
                    + Cardinality({i \in CallsOf(Getters) : \A j \in Completed : j >= i})
    /\ Cardinality({i \in CallsOf(Getters) \cap Completed : ld_calls[i].reads # 0}) <= 1

\* On a readable file: get_basic_info loaded it, get_summary_statistics
\* did not read it again, load_data did, and get_basic_info did not.
C11_Witness ==
    /\ Len(ld_calls) = 4
    /\ ld_calls[1].op = "get_basic_info" /\ ld_calls[1].reads = 1 /\ ~ld_calls[1].raised
    /\ ld_calls[2].op = "get_summary_statistics" /\ ld_calls[2].reads = 0
    /\ ld_calls[3].op = "load_data" /\ ld_calls[3].reads = 1
    /\ ld_calls[4].op = "get_basic_info" /\ ld_calls[4].reads = 0
    /\ ld_reads = 2 /\ ld_data.loaded

----------------------------------------------------------------------------
(* Claims about scripts/clean_data.py and the loader, under SpecClean *)

\* C16: the cleaning script and the loader agree on file names: after main
\* of scripts/clean_data.py has written its three output files into the
\* data directory, load_cleaned_data run on that directory finds each of
\* benin_clean.csv, togo_clean.csv and sierraleone_clean.csv, and does not
\* fail with file-not-found.
C16_LoaderFindsCleanedFiles ==
    cpc = "done" /\ pc # "idle"
      => /\ \A f \in {"benin_clean.csv", "togo_clean.csv", "sierraleone_clean.csv"} :
               files[f].exists
         /\ ~(pc = "raised" /\ exc.type = "FileNotFoundError")

\* What main does write: the files of Benin and Togo that the loader
\* expects, and sierra_leone_clean.csv.
C16_SierraLeoneNotWritten ==
    cpc = "done" /\ pc # "idle"
      => /\ files["benin_clean.csv"].exists /\ files["togo_clean.csv"].exists
         /\ <<"s", "i", "e", "r", "r", "a", "_", "l", "e", "o", "n", "e", "_", "c", "l", "e", "a", "n", ".", "c", "s", "v">> \in DOMAIN dir_files

====
